---- MODULE Spec2Model ----
(***************************************************************************)
(* The declarative command compiler of mario (src/mario/declarative.py):   *)
(* marshmallow schemas that turn raw configuration mappings into           *)
(* click.Option / click.Argument descriptors and the attrs dataclasses     *)
(* RemapParam, CommandStage, CommandTestSpec and CommandSpec.              *)
(*                                                                         *)
(* A schema load is a pure function of the raw mapping and of the next     *)
(* free object identity; the state machine applies the loads, one per      *)
(* step, to inputs drawn from bounded sets and keeps the last outcome.     *)
(***************************************************************************)
EXTENDS Integers, Sequences, FiniteSets, TLC

VARIABLES
    op,       \* the operation applied last
    input,    \* its raw input
    out,      \* its outcome: a value or the exception raised
    prev,     \* outcome of the preceding load, when it was of the same input
    nextId    \* identity the next constructed click object gets

vars == <<op, input, out, prev, nextId>>

---------------------------------------------------------------------------
(* Values.  Raw configuration data and the Python values built from it are *)
(* tagged records, so that values of different Python types are unequal.   *)

StrV(s) == [ty |-> "str", s |-> s]
IntV(i) == [ty |-> "int", i |-> i]
BoolV(b) == [ty |-> "bool", b |-> b]
ListV(items) == [ty |-> "list", items |-> items]
DictV(map) == [ty |-> "dict", map |-> map]
TypeV(n) == [ty |-> "type", name |-> n]

\* Python None, which is also what a null of the configuration loads as
NoneV == [ty |-> "none"]

\* marshmallow.missing: the marker of an absent key / an unset default
missing == [ty |-> "missing"]

\* Outcome of a call: the value returned, or the exception raised.
\* next is the first object identity the call left unused.
Ok(v, n) == [kind |-> "ok", value |-> v, errors |-> {}, next |-> n]

Raise(e, n) == [kind |-> e, value |-> missing, errors |-> {}, next |-> n]

\* marshmallow.ValidationError; messages is its (nested) mapping, kept as
\* the set of [path, msg]: path is the chain of keys down to the message
Invalid(messages, n) ==
    [kind |-> "ValidationError", value |-> missing, errors |-> messages, next |-> n]

Msg(m) == {[path |-> <<>>, msg |-> m]}

\* store_error(messages, field_name): the messages nest under the key
Under(key, messages) ==
    {[path |-> <<key>> \o e.path, msg |-> e.msg] : e \in messages}

Escapes(r) == r.kind \in {"KeyError", "TypeError"}

\* Characters of the strings used as parameter names (str indexing)
Chars ==
    [s \in {"--x", "-x", "x", "--x/--no-x"} |->
        CASE s = "--x" -> <<"-", "-", "x">>
          [] s = "-x" -> <<"-", "x">>
          [] s = "x" -> <<"x">>
          [] s = "--x/--no-x" ->
                <<"-", "-", "x", "/", "-", "-", "n", "o", "-", "x">>]

\* str.startswith
StartsWith(s, c) == s \in DOMAIN Chars /\ Chars[s][1] = c

\* Position in a list as a key of the error mapping (0-based, as in Python)
IndexKey(i) == <<"0", "1", "2", "3">>[i]

---------------------------------------------------------------------------
(* The type registry and the custom fields                                 *)

TYPES == [n \in {"int", "str", "bool", "float"} |-> TypeV(n)]

Hashable(value) == value.ty \notin {"list", "dict"}

\* TypeField._deserialize without the fallback: the KeyError is always re-raised
TypeField_deserialize_noFallback(default, value, n) ==
    IF value.ty \in {"list", "dict"} THEN Raise("TypeError", n)
    ELSE IF value.ty = "str" /\ value.s \in DOMAIN TYPES THEN Ok(TYPES[value.s], n)
    ELSE Raise("KeyError", n)

\* TypeField._deserialize: an unknown name re-raises the KeyError unless
\* the field was built with default=...
TypeField_deserialize(default, value, n) ==
    IF ~Hashable(value) THEN Raise("TypeError", n)
    ELSE IF value.ty = "str" /\ value.s \in DOMAIN TYPES THEN Ok(TYPES[value.s], n)
    ELSE IF default = missing THEN Raise("KeyError", n)
    ELSE Ok(default, n)

\* OptionNameField._deserialize without the early return: the prefix check runs
OptionNameField_deserialize_prefixChecked(value, n) ==
    IF ~StartsWith(value.s, "-")
    THEN Invalid(Msg("is an option, so must start with -."), n)
    ELSE Ok(ListV(<<value>>), n)

\* OptionNameField._deserialize: returns before its prefix check
OptionNameField_deserialize(value, n) == Ok(ListV(<<value>>), n)

\* ArgumentNameField._deserialize
ArgumentNameField_deserialize(value, n) == Ok(ListV(<<value>>), n)

\* AnyField inherits Field._deserialize, which returns the value as it is
AnyField_deserialize(value, n) == Ok(value, n)

---------------------------------------------------------------------------
(* Field declarations.  default is the dump default (the default= keyword, *)
(* which TypeField also keeps as its fallback), missing the load default   *)
(* (the missing= keyword; missing=list and missing=dict build a new empty  *)
(* container at every load), data_key the external key.                    *)

Field(kind, attr) ==
    [kind |-> kind, attr |-> attr, data_key |-> attr, default |-> missing,
     missing |-> missing, required |-> FALSE, inner |-> missing, schema |-> ""]

Nested(schema) == [Field("Nested", "") EXCEPT !.schema = schema]

\* OptionSchema with the default of the "default" field given as missing=None
OptionSchema_loadDefault ==
    << [Field("OptionNameField", "param_decls") EXCEPT !.data_key = "name"],
       Field("TypeField", "typex"),
       [Field("Boolean", "is_flag") EXCEPT !.default = BoolV(FALSE)],
       [Field("String", "help") EXCEPT !.default = NoneV],
       [Field("Boolean", "hidden") EXCEPT !.default = BoolV(FALSE)],
       [Field("Boolean", "required") EXCEPT !.default = BoolV(FALSE)],
       Field("Integer", "nargs"),
       Field("Boolean", "multiple"),
       [Field("AnyField", "default") EXCEPT !.default = NoneV, !.missing = NoneV] >>

OptionSchema ==
    << [Field("OptionNameField", "param_decls") EXCEPT !.data_key = "name"],
       Field("TypeField", "typex"),
       [Field("Boolean", "is_flag") EXCEPT !.default = BoolV(FALSE)],
       [Field("String", "help") EXCEPT !.default = NoneV],
       [Field("Boolean", "hidden") EXCEPT !.default = BoolV(FALSE)],
       [Field("Boolean", "required") EXCEPT !.default = BoolV(FALSE)],
       Field("Integer", "nargs"),
       Field("Boolean", "multiple"),
       [Field("AnyField", "default") EXCEPT !.default = NoneV] >>

ArgumentSchema ==
    << [Field("ArgumentNameField", "param_decls") EXCEPT !.data_key = "name"],
       [Field("TypeField", "type") EXCEPT !.default = TypeV("str")],
       [Field("Boolean", "required") EXCEPT !.default = BoolV(TRUE)],
       [Field("Integer", "nargs") EXCEPT !.default = NoneV] >>

RemapParamSchema ==
    << Field("String", "new"),
       Field("String", "old") >>

CommandStageSchema ==
    << Field("String", "command"),
       [Field("List", "remap_params") EXCEPT
            !.inner = Nested("RemapParamSchema"), !.missing = ListV(<<>>)],
       [Field("Dict", "params") EXCEPT !.missing = DictV(<<>>)] >>

CommandTestSpecSchema ==
    << [Field("List", "invocation") EXCEPT !.inner = Field("String", "")],
       Field("String", "input"),
       Field("String", "output") >>

\* CommandSpecSchema with the stages field declared without data_key="stage"
CommandSpecSchema_noDataKey ==
    << Field("String", "name"),
       [Field("String", "help") EXCEPT !.default = NoneV, !.missing = NoneV],
       [Field("String", "short_help") EXCEPT !.default = NoneV, !.missing = NoneV],
       [Field("List", "arguments") EXCEPT
            !.inner = Nested("ArgumentSchema"), !.missing = ListV(<<>>)],
       [Field("List", "options") EXCEPT
            !.inner = Nested("OptionSchema"), !.missing = ListV(<<>>)],
       [Field("List", "stages") EXCEPT !.inner = Nested("CommandStageSchema")],
       [Field("List", "inject_values") EXCEPT
            !.inner = Field("String", ""), !.missing = ListV(<<>>)],
       [Field("List", "test_specs") EXCEPT
            !.inner = Nested("CommandTestSpecSchema"), !.missing = ListV(<<>>),
            !.data_key = "test"],
       [Field("String", "section") EXCEPT !.missing = NoneV] >>

CommandSpecSchema ==
    << Field("String", "name"),
       [Field("String", "help") EXCEPT !.default = NoneV, !.missing = NoneV],
       [Field("String", "short_help") EXCEPT !.default = NoneV, !.missing = NoneV],
       [Field("List", "arguments") EXCEPT
            !.inner = Nested("ArgumentSchema"), !.missing = ListV(<<>>)],
       [Field("List", "options") EXCEPT
            !.inner = Nested("OptionSchema"), !.missing = ListV(<<>>)],
       [Field("List", "stages") EXCEPT
            !.inner = Nested("CommandStageSchema"), !.data_key = "stage"],
       [Field("List", "inject_values") EXCEPT
            !.inner = Field("String", ""), !.missing = ListV(<<>>)],
       [Field("List", "test_specs") EXCEPT
            !.inner = Nested("CommandTestSpecSchema"), !.missing = ListV(<<>>),
            !.data_key = "test"],
       [Field("String", "section") EXCEPT !.missing = NoneV] >>

load_fields(schema) ==
    CASE schema = "OptionSchema" -> OptionSchema
      [] schema = "ArgumentSchema" -> ArgumentSchema
      [] schema = "RemapParamSchema" -> RemapParamSchema
      [] schema = "CommandStageSchema" -> CommandStageSchema
      [] schema = "CommandTestSpecSchema" -> CommandTestSpecSchema
      [] schema = "CommandSpecSchema" -> CommandSpecSchema

---------------------------------------------------------------------------
(* The constructors the post_load hooks call                               *)

\* click.Option(**validated).  The constructor takes these keywords and
\* raises TypeError for any other; a declaration that is a bare identifier
\* names the parameter and declares no option, which it also refuses;
\* is_flag left out is derived from a secondary ("/") declaration.
click_Option(validated, id) ==
    LET accepted == {"param_decls", "type", "is_flag", "help", "hidden",
                     "required", "nargs", "multiple", "default"}
        decl == validated["param_decls"].items[1].s
        given(k, dflt) == IF k \in DOMAIN validated THEN validated[k].b ELSE dflt
    IN  IF ~(DOMAIN validated \subseteq accepted) THEN Raise("TypeError", id)
        ELSE IF "param_decls" \notin DOMAIN validated THEN Raise("TypeError", id)
        ELSE IF ~StartsWith(decl, "-") THEN Raise("TypeError", id)
        ELSE Ok([cls |-> "click.Option", id |-> id, kwargs |-> validated,
                 is_flag |-> given("is_flag",
                                   \E i \in 2..Len(Chars[decl]) : Chars[decl][i] = "/"),
                 hidden |-> given("hidden", FALSE),
                 required |-> given("required", FALSE)], id + 1)

\* click.Argument(**validated): any single declaration names the argument;
\* required left out is derived from nargs
click_Argument(validated, id) ==
    LET accepted == {"param_decls", "type", "required", "nargs", "default"}
    IN  IF ~(DOMAIN validated \subseteq accepted) THEN Raise("TypeError", id)
        ELSE IF "param_decls" \notin DOMAIN validated THEN Raise("TypeError", id)
        ELSE Ok([cls |-> "click.Argument", id |-> id, kwargs |-> validated,
                 required |-> IF "required" \in DOMAIN validated
                              THEN validated["required"].b
                              ELSE IF "nargs" \in DOMAIN validated
                                   THEN validated["nargs"].i > 0
                                   ELSE TRUE], id + 1)

\* The __init__ attrs generates for a dataclass without defaults: every
\* attribute is a required keyword, a missing one is a TypeError.  The
\* generated __eq__ compares the attributes, so the value is the record.
attr_dataclass(cls, attributes, validated, n) ==
    IF DOMAIN validated = attributes
    THEN Ok([cls |-> cls, attrs |-> validated], n)
    ELSE Raise("TypeError", n)

RemapParam(validated, n) == attr_dataclass("RemapParam", {"new", "old"}, validated, n)

CommandStage(validated, n) ==
    attr_dataclass("CommandStage", {"command", "remap_params", "params"}, validated, n)

CommandTestSpec(validated, n) ==
    attr_dataclass("CommandTestSpec", {"invocation", "input", "output"}, validated, n)

CommandSpec(validated, n) ==
    attr_dataclass("CommandSpec",
                   {"name", "short_help", "help", "arguments", "options",
                    "stages", "inject_values", "test_specs", "section"},
                   validated, n)

\* The post_load hooks
make_option(validated, n) == click_Option(validated, n)

make_argument(validated, n) == click_Argument(validated, n)

\* make_remap passing the two values by position in the order (old, new),
\* where the dataclass declares (new, old)
make_remap_swapped(validated, n) ==
    IF DOMAIN validated = {"new", "old"}
    THEN RemapParam([new |-> validated["old"], old |-> validated["new"]], n)
    ELSE RemapParam(validated, n)

make_remap(validated, n) == RemapParam(validated, n)

CommandStageSchema_make(validated, n) == CommandStage(validated, n)

CommandTestSpecSchema_make(validated, n) == CommandTestSpec(validated, n)

CommandSpecSchema_make(validated, n) == CommandSpec(validated, n)

post_load(schema, validated, n) ==
    CASE schema = "OptionSchema" -> make_option(validated, n)
      [] schema = "ArgumentSchema" -> make_argument(validated, n)
      [] schema = "RemapParamSchema" -> make_remap(validated, n)
      [] schema = "CommandStageSchema" -> CommandStageSchema_make(validated, n)
      [] schema = "CommandTestSpecSchema" -> CommandTestSpecSchema_make(validated, n)
      [] schema = "CommandSpecSchema" -> CommandSpecSchema_make(validated, n)

---------------------------------------------------------------------------
(* marshmallow: the deserialization the declared fields inherit            *)

truthy ==
    {StrV(s) : s \in {"t", "T", "true", "True", "TRUE", "on", "On", "ON",
                      "y", "Y", "yes", "Yes", "YES", "1"}}
        \cup {IntV(1), BoolV(TRUE)}

falsy ==
    {StrV(s) : s \in {"f", "F", "false", "False", "FALSE", "off", "Off", "OFF",
                      "n", "N", "no", "No", "NO", "0"}}
        \cup {IntV(0), BoolV(FALSE)}

\* int(str) on the numerals of the model
numerals == [s \in {"-1", "0", "1", "2"} |->
                CASE s = "-1" -> -1 [] s = "0" -> 0 [] s = "1" -> 1 [] s = "2" -> 2]

String_deserialize(value, n) ==
    IF value.ty = "str" THEN Ok(value, n) ELSE Invalid(Msg("Not a valid string."), n)

Boolean_deserialize(value, n) ==
    IF value \in truthy THEN Ok(BoolV(TRUE), n)
    ELSE IF value \in falsy THEN Ok(BoolV(FALSE), n)
    ELSE Invalid(Msg("Not a valid boolean."), n)

Integer_deserialize(value, n) ==
    IF value.ty = "int" THEN Ok(value, n)
    ELSE IF value.ty = "str" /\ value.s \in DOMAIN numerals
         THEN Ok(IntV(numerals[value.s]), n)
    ELSE Invalid(Msg("Not a valid integer."), n)

Dict_deserialize(value, n) ==
    IF value.ty = "dict" THEN Ok(value, n)
    ELSE Invalid(Msg("Not a valid mapping type."), n)

RECURSIVE Field_deserialize(_, _, _), List_items(_, _, _, _), Schema_load(_, _, _),
          Schema_deserialize(_, _, _, _)

\* List._deserialize from item i on: each item is deserialized, the items'
\* ValidationErrors are collected under their index
List_items(inner, items, i, acc) ==
    IF i > Len(items) THEN acc
    ELSE LET r == Field_deserialize(inner, items[i], acc.next)
         IN  IF Escapes(r) THEN r
             ELSE IF r.kind = "ValidationError"
             THEN List_items(inner, items, i + 1,
                      [acc EXCEPT !.errors = @ \cup Under(IndexKey(i), r.errors),
                                  !.next = r.next])
             ELSE List_items(inner, items, i + 1,
                      [acc EXCEPT !.value = Append(@, r.value), !.next = r.next])

\* Field.deserialize, then the _deserialize of the field's class
Field_deserialize(f, value, n) ==
    IF value = missing
    THEN IF f.required THEN Invalid(Msg("Missing data for required field."), n)
         ELSE Ok(f.missing, n)
    ELSE IF value = NoneV
    THEN IF f.missing = NoneV THEN Ok(NoneV, n)
         ELSE Invalid(Msg("Field may not be null."), n)
    ELSE CASE f.kind = "String" -> String_deserialize(value, n)
           [] f.kind = "Boolean" -> Boolean_deserialize(value, n)
           [] f.kind = "Integer" -> Integer_deserialize(value, n)
           [] f.kind = "Dict" -> Dict_deserialize(value, n)
           [] f.kind = "AnyField" -> AnyField_deserialize(value, n)
           [] f.kind = "TypeField" -> TypeField_deserialize(f.default, value, n)
           [] f.kind = "OptionNameField" -> OptionNameField_deserialize(value, n)
           [] f.kind = "ArgumentNameField" -> ArgumentNameField_deserialize(value, n)
           [] f.kind = "Nested" -> Schema_load(f.schema, value, n)
           [] f.kind = "List" ->
                IF value.ty # "list" THEN Invalid(Msg("Not a valid list."), n)
                ELSE LET r == List_items(f.inner, value.items, 1, Ok(<<>>, n))
                     IN  IF Escapes(r) THEN r
                         ELSE IF r.errors # {} THEN Invalid(r.errors, r.next)
                         ELSE Ok(ListV(r.value), r.next)

\* Schema._deserialize from declared field i on: the raw value is looked up
\* under the data key, a ValidationError is stored under that key and the
\* next field is tried, any other exception ends the load
Schema_deserialize(fields, data, i, acc) ==
    IF i > Len(fields) THEN acc
    ELSE LET f == fields[i]
             raw == IF f.data_key \in DOMAIN data THEN data[f.data_key] ELSE missing
             r == Field_deserialize(f, raw, acc.next)
         IN  IF Escapes(r) THEN r
             ELSE IF r.kind = "ValidationError"
             THEN Schema_deserialize(fields, data, i + 1,
                      [acc EXCEPT !.errors = @ \cup Under(f.data_key, r.errors),
                                  !.next = r.next])
             ELSE IF r.value = missing
             THEN Schema_deserialize(fields, data, i + 1, [acc EXCEPT !.next = r.next])
             ELSE Schema_deserialize(fields, data, i + 1,
                      [acc EXCEPT !.value = (f.attr :> r.value) @@ @, !.next = r.next])

\* Schema.load: the declared fields, then the keys no field declares
\* (unknown = RAISE), then either the ValidationError or the post_load hook
Schema_load(schema, raw, n) ==
    IF raw.ty # "dict"
    THEN Invalid(Under("_schema", Msg("Invalid input type.")), n)
    ELSE LET fields == load_fields(schema)
             r == Schema_deserialize(fields, raw.map, 1, Ok(<<>>, n))
             keys == {fields[i].data_key : i \in DOMAIN fields}
             unknown == UNION {Under(k, Msg("Unknown field.")) :
                                   k \in DOMAIN raw.map \ keys}
         IN  IF Escapes(r) THEN r
             ELSE IF r.errors \cup unknown # {}
             THEN Invalid(r.errors \cup unknown, r.next)
             ELSE post_load(schema, r.value, r.next)

---------------------------------------------------------------------------
(* Stage resolution: the command registry is an external collaborator and  *)
(* the resolver is not part of declarative.py; both follow the design      *)
(* document (Stage Resolver, steps 1 to 3).                                *)

\* base command -> its canonical parameter names
registry == [c \in {"cmd"} |-> {"a", "b"}]

\* the rename map built from remap_params (old -> new), applied to a name
rename(remaps, p) ==
    LET hits == {i \in DOMAIN remaps : remaps[i].attrs["old"] = StrV(p)}
    IN  IF hits = {} THEN p
        ELSE remaps[CHOOSE i \in hits : \A j \in hits : j <= i].attrs["new"].s

resolve_stage(stage, n) ==
    LET command == stage.attrs["command"].s
        remaps == stage.attrs["remap_params"].items
        params == stage.attrs["params"].map
        namespace == {rename(remaps, p) : p \in registry[command]}
    IN  IF command \notin DOMAIN registry THEN Raise("UnknownCommandError", n)
        ELSE IF ~(DOMAIN params \subseteq namespace)
        THEN Raise("UnknownParameterError", n)
        ELSE Ok([namespace |-> namespace, effective |-> params], n)

---------------------------------------------------------------------------
(* Inputs                                                                  *)

MaxObjects == 4

\* a raw mapping from <<key, value>> pairs; a pair whose value is missing
\* stands for a key the mapping does not have
Config(pairs) ==
    LET present == {i \in DOMAIN pairs : pairs[i][2] # missing}
    IN  DictV([k \in {pairs[i][1] : i \in present} |->
                  pairs[CHOOSE i \in present : pairs[i][1] = k][2]])

Absent(S) == {missing} \cup S

JsonValues ==
    {NoneV, StrV("d"), IntV(0), BoolV(FALSE), ListV(<<IntV(1)>>),
     DictV([k \in {"k"} |-> StrV("v")])}

NameValues == {StrV(s) : s \in DOMAIN Chars}

TypeNames == {StrV(s) : s \in DOMAIN TYPES \cup {"bogus", ""}}

OptionConfigs ==
    {Config(<<<<"name", a>>, <<"typex", b>>, <<"is_flag", c>>, <<"nargs", e>>,
              <<"param_decls", f>>>>) :
        a \in Absent({StrV("--x"), StrV("x")}),
        b \in Absent({StrV("int"), StrV("bogus")}),
        c \in Absent({BoolV(TRUE), StrV("maybe")}),
        e \in Absent({IntV(2), StrV("abc")}),
        f \in Absent({StrV("--x")})}
    \cup
    {Config(<<<<"name", a>>, <<"default", g>>, <<"required", c>>, <<"hidden", d>>>>) :
        a \in Absent(NameValues), g \in Absent(JsonValues),
        c \in Absent({BoolV(TRUE)}), d \in Absent({StrV("false")})}

ArgumentConfigs ==
    {Config(<<<<"name", a>>, <<"type", b>>, <<"required", c>>, <<"nargs", d>>,
              <<"param_decls", e>>>>) :
        a \in Absent({StrV("x"), StrV("-x")}),
        b \in Absent({StrV("int"), StrV("bogus")}),
        c \in Absent({BoolV(FALSE), StrV("maybe")}),
        d \in Absent({StrV("-1"), StrV("abc")}),
        e \in Absent({StrV("x")})}

RemapConfigs ==
    {Config(<<<<"new", a>>, <<"old", b>>>>) :
        a \in Absent({StrV("x"), StrV("y"), IntV(1)}),
        b \in Absent({StrV("a"), StrV("b")})}

StageConfigs ==
    {Config(<<<<"command", a>>, <<"remap_params", b>>, <<"params", c>>>>) :
        a \in Absent({StrV("cmd"), StrV("nope")}),
        b \in Absent({ListV(<<>>)}
                     \cup {ListV(<<r>>) : r \in RemapConfigs}
                     \cup {ListV(<<Config(<<<<"new", StrV("x")>>, <<"old", StrV("a")>>>>),
                                   Config(<<<<"new", StrV("y")>>, <<"old", StrV("b")>>>>)>>)}),
        c \in Absent({DictV([k \in {"x", "b"} |-> IF k = "x" THEN StrV("1") ELSE StrV("2")]),
                      DictV([k \in {"a"} |-> StrV("1")]),
                      DictV([k \in {"z"} |-> StrV("1")]),
                      StrV("x=1")})}

TestSpecConfigs ==
    {Config(<<<<"invocation", a>>, <<"input", b>>, <<"output", c>>>>) :
        a \in Absent({ListV(<<StrV("map"), StrV("x")>>), ListV(<<IntV(1)>>), StrV("map")}),
        b \in Absent({StrV("1"), IntV(1)}),
        c \in Absent({StrV("2")})}

aStage == Config(<<<<"command", StrV("cmd")>>>>)

aTest ==
    Config(<<<<"invocation", ListV(<<StrV("map")>>)>>, <<"input", StrV("1")>>,
             <<"output", StrV("2")>>>>)

CommandSpecConfigs ==
    {Config(<<<<"name", a>>, <<"stage", b>>, <<"stages", c>>, <<"arguments", d>>,
              <<"options", e>>, <<"test", f>>, <<"test_specs", g>>>>) :
        a \in Absent({StrV("c")}),
        b \in Absent({ListV(<<>>), ListV(<<aStage>>),
                      ListV(<<aStage, Config(<<<<"command", IntV(1)>>>>)>>)}),
        c \in Absent({ListV(<<aStage>>)}),
        d \in Absent({ListV(<<Config(<<<<"name", StrV("x")>>>>)>>),
                      ListV(<<Config(<<<<"name", StrV("x")>>, <<"nargs", StrV("abc")>>>>)>>)}),
        e \in Absent({ListV(<<Config(<<<<"name", StrV("--x")>>>>)>>),
                      ListV(<<Config(<<<<"name", StrV("--x")>>, <<"typex", StrV("bogus")>>,
                                       <<"is_flag", StrV("maybe")>>>>)>>),
                      ListV(<<Config(<<<<"name", StrV("--x")>>, <<"nargs", StrV("abc")>>,
                                       <<"is_flag", StrV("maybe")>>>>)>>)}),
        f \in Absent({ListV(<<aTest>>)}),
        g \in Absent({ListV(<<aTest>>)})}
    \cup
    {Config(<<<<"name", StrV("c")>>, <<"stage", ListV(<<aStage>>)>>, <<"help", a>>,
              <<"short_help", b>>, <<"section", c>>, <<"inject_values", d>>>>) :
        a \in Absent({NoneV, StrV("h"), IntV(1)}),
        b \in Absent({StrV("s")}),
        c \in Absent({NoneV, StrV("docs")}),
        d \in Absent({ListV(<<StrV("verbose")>>), ListV(<<IntV(1)>>), StrV("verbose")})}

Configs(schema) ==
    CASE schema = "OptionSchema" -> OptionConfigs
      [] schema = "ArgumentSchema" -> ArgumentConfigs
      [] schema = "RemapParamSchema" -> RemapConfigs
      [] schema = "CommandStageSchema" -> StageConfigs
      [] schema = "CommandTestSpecSchema" -> TestSpecConfigs
      [] schema = "CommandSpecSchema" -> CommandSpecConfigs

---------------------------------------------------------------------------
(* The state machine                                                       *)

Init ==
    /\ op = "none"
    /\ input = missing
    /\ out = missing
    /\ prev = missing
    /\ nextId = 0

\* Schema().load(data)
Load(schema, data) ==
    LET r == Schema_load(schema, data, nextId)
    IN  /\ op = "none"
        /\ r.next <= MaxObjects
        /\ op' = "load"
        /\ input' = [schema |-> schema, data |-> data]
        /\ out' = r
        /\ prev' = missing
        /\ nextId' = r.next

LoadOption == \E data \in OptionConfigs : Load("OptionSchema", data)

LoadArgument == \E data \in ArgumentConfigs : Load("ArgumentSchema", data)

LoadRemapParam == \E data \in RemapConfigs : Load("RemapParamSchema", data)

LoadCommandStage == \E data \in StageConfigs : Load("CommandStageSchema", data)

LoadCommandTestSpec == \E data \in TestSpecConfigs : Load("CommandTestSpecSchema", data)

LoadCommandSpec == \E data \in CommandSpecConfigs : Load("CommandSpecSchema", data)

\* The same configuration loaded a second time
LoadAgain ==
    LET r == Schema_load(input.schema, input.data, nextId)
    IN  /\ op = "load"
        /\ prev = missing
        /\ r.next <= MaxObjects
        /\ prev' = out
        /\ out' = r
        /\ nextId' = r.next
        /\ UNCHANGED <<op, input>>

\* One declared field applied to one raw value: field.deserialize(value)
Deserialize ==
    \E schema \in {"OptionSchema", "ArgumentSchema"} :
      \E i \in DOMAIN load_fields(schema) :
        \E value \in TypeNames \cup NameValues \cup JsonValues \cup {IntV(7), ListV(<<>>)} :
            /\ op = "none"
            /\ op' = "deserialize"
            /\ input' = [schema |-> schema, attr |-> load_fields(schema)[i].attr,
                         value |-> value]
            /\ out' = Field_deserialize(load_fields(schema)[i], value, nextId)
            /\ prev' = missing
            /\ UNCHANGED nextId

\* A compiled stage resolved against the registry
ResolveStage ==
    /\ op = "load"
    /\ input.schema = "CommandStageSchema"
    /\ out.kind = "ok"
    /\ op' = "resolve"
    /\ out' = resolve_stage(out.value, nextId)
    /\ prev' = out
    /\ UNCHANGED <<input, nextId>>

\* The caller drops the outcome
Forget ==
    /\ op # "none"
    /\ op' = "none"
    /\ input' = missing
    /\ out' = missing
    /\ prev' = missing
    /\ UNCHANGED nextId

Next ==
    \/ LoadOption
    \/ LoadArgument
    \/ LoadRemapParam
    \/ LoadCommandStage
    \/ LoadCommandTestSpec
    \/ LoadCommandSpec
    \/ LoadAgain
    \/ Deserialize
    \/ ResolveStage
    \/ Forget

Spec == Init /\ [][Next]_vars

---------------------------------------------------------------------------
(* Properties                                                              *)

Loaded(schema) == op = "load" /\ input.schema = schema

FieldOf(schema, attr) ==
    LET fields == load_fields(schema)
    IN  fields[CHOOSE i \in DOMAIN fields : fields[i].attr = attr]

\* the items of a raw list compiled one by one through a nested schema
Compiled(schema, list) ==
    ListV([i \in 1..Len(list.items) |-> Schema_load(schema, list.items[i], 0).value])

HasError(key, msg) == [path |-> <<key>>, msg |-> msg] \in out.errors

\* C1: a CommandSpec configuration without the `stage` key, valid otherwise,
\* fails with a ValidationError that names the stages field (by its
\* attribute or by its data key).
C1_MissingStageIsValidationError ==
    (/\ Loaded("CommandSpecSchema")
     /\ "stage" \notin DOMAIN input.data.map
     /\ Schema_load("CommandSpecSchema",
                    DictV(("stage" :> ListV(<<aStage>>)) @@ input.data.map), 0).kind = "ok")
    => (out.kind = "ValidationError"
        /\ \E e \in out.errors : e.path[1] \in {"stages", "stage"})

\* C2: a type name outside TYPES raises for the Option's type field (no
\* default configured) and resolves to str for the Argument's (default str);
\* a name of TYPES resolves to its type on both.
C2_FallbackOnDefaultElseRaise ==
    /\ (/\ op = "deserialize"
        /\ input.attr \in {"typex", "type"}
        /\ input.value.ty = "str")
       => IF input.value.s \in {"int", "str", "bool", "float"}
          THEN out.kind = "ok" /\ out.value = TypeV(input.value.s)
          ELSE IF input.schema = "OptionSchema"
          THEN out.kind = "KeyError"
          ELSE out.kind = "ok" /\ out.value = TypeV("str")
    /\ (Loaded("ArgumentSchema") /\ out.kind = "ok" /\ "type" \in DOMAIN input.data.map)
       => out.value.kwargs["type"] =
             IF input.data.map["type"] = StrV("int") THEN TypeV("int") ELSE TypeV("str")
    /\ (Loaded("OptionSchema") /\ "typex" \in DOMAIN input.data.map
            /\ input.data.map["typex"] = StrV("bogus"))
       => out.kind = "KeyError"

C2_Witness ==
    /\ op = "deserialize"
    /\ input.schema = "ArgumentSchema"
    /\ input.attr = "type"
    /\ input.value = StrV("bogus")
    /\ out.kind = "ok"
    /\ out.value = TypeV("str")

\* C3: every CommandSpec a load returns has at least one stage.
C3_StagesNonEmpty ==
    (Loaded("CommandSpecSchema") /\ out.kind = "ok")
    => Len(out.value.attrs["stages"].items) > 0

\* the external keys of a raw mapping whose value its field rejects, and the
\* keys no field declares
Offending(schema, data) ==
    LET fields == load_fields(schema)
    IN  {fields[i].data_key : i \in
            {j \in DOMAIN fields :
                /\ fields[j].data_key \in DOMAIN data
                /\ Field_deserialize(fields[j], data[fields[j].data_key], 0).kind # "ok"}}
        \cup (DOMAIN data \ {fields[i].data_key : i \in DOMAIN fields})

\* C4: a load whose raw mapping has two or more offending fields fails with
\* one ValidationError that has an entry for every one of them, a nested
\* schema's errors under the key of the nesting field.
C4_ErrorsAccumulate ==
    (op = "load" /\ Cardinality(Offending(input.schema, input.data.map)) >= 2)
    => /\ out.kind = "ValidationError"
       /\ \A k \in Offending(input.schema, input.data.map) :
             \E e \in out.errors : e.path[1] = k

\* C5: the same valid configuration compiled twice gives two CommandSpec
\* values that compare equal.
C5_CompiledTwiceEqual ==
    (/\ Loaded("CommandSpecSchema")
     /\ prev # missing
     /\ prev.kind = "ok"
     /\ Len(prev.value.attrs["stages"].items) > 0)
    => (out.kind = "ok" /\ out.value = prev.value)

\* a name click takes as the declaration of one option: dash-prefixed,
\* without a secondary ("/") form
OptionDeclaration(name) ==
    /\ name.ty = "str"
    /\ StartsWith(name.s, "-")
    /\ \A i \in DOMAIN Chars[name.s] : Chars[name.s][i] # "/"

theStage ==
    Config(<<<<"command", StrV("cmd")>>,
             <<"remap_params",
               ListV(<<Config(<<<<"new", StrV("x")>>, <<"old", StrV("a")>>>>)>>)>>,
             <<"params", DictV([k \in {"x", "b"} |->
                                   IF k = "x" THEN StrV("1") ELSE StrV("2")])>>>>)

C8_KeyRemapping ==
    /\ (Loaded("CommandSpecSchema") /\ out.kind = "ok")
       => /\ "stage" \in DOMAIN input.data.map
          /\ out.value.attrs["stages"] =
                Compiled("CommandStageSchema", input.data.map["stage"])
          /\ out.value.attrs["test_specs"] =
                IF "test" \in DOMAIN input.data.map
                THEN Compiled("CommandTestSpecSchema", input.data.map["test"])
                ELSE ListV(<<>>)
    /\ ((Loaded("OptionSchema") \/ Loaded("ArgumentSchema")) /\ out.kind = "ok")
       => /\ "name" \in DOMAIN input.data.map
          /\ out.value.kwargs["param_decls"] = ListV(<<input.data.map["name"]>>)
    /\ \A k \in {"stages", "test_specs", "param_decls"} :
          (op = "load" /\ k \in DOMAIN input.data.map)
          => /\ out.kind # "ok"
             /\ out.kind = "ValidationError" => HasError(k, "Unknown field.")

C8_Witness ==
    /\ Loaded("CommandSpecSchema")
    /\ out.kind = "ok"
    /\ "test" \in DOMAIN input.data.map
    /\ Len(out.value.attrs["stages"].items) = 1
    /\ Len(out.value.attrs["test_specs"].items) = 1
    /\ Len(out.value.attrs["options"].items) = 1

\* C9: the field of an Option's `default` accepts every raw value, null
\* included, and the descriptor carries the value given.
C9_AnyValueAccepted ==
    /\ (op = "deserialize" /\ input.schema = "OptionSchema" /\ input.attr = "default")
       => (out.kind = "ok" /\ out.value = input.value)
    /\ (/\ Loaded("OptionSchema")
        /\ DOMAIN input.data.map = {"name", "default"}
        /\ OptionDeclaration(input.data.map["name"]))
       => (out.kind = "ok" /\ out.value.kwargs["default"] = input.data.map["default"])

\* C10: both name fields turn every raw string s into the list [s],
\* whatever its first character.
C10_NamesWrapped ==
    (op = "deserialize" /\ input.attr = "param_decls" /\ input.value.ty = "str")
    => (out.kind = "ok" /\ out.value = ListV(<<input.value>>))

C10_Witness ==
    /\ op = "deserialize"
    /\ input.schema = "OptionSchema"
    /\ input.attr = "param_decls"
    /\ input.value = StrV("x")
    /\ out.kind = "ok"
    /\ out.value = ListV(<<StrV("x")>>)

====
